---- MODULE Spec2Model ----
(***************************************************************************)
(* Orchestration loop, session map and memory trimming of the chat         *)
(* assistant, in its three variants:                                       *)
(*   "openrouter"  socket server of src/unnamed/part_001                   *)
(*   "gemini"      socket server of src/unnamed/part_003                   *)
(*   "cli"         terminal client of src/client-side/index.js (412-590)   *)
(* JavaScript runs each piece of code between two awaits atomically, so    *)
(* every action below is one such piece: from the event (or the resolved   *)
(* await) that starts it to the next await or the end of the handler.      *)
(* Arrays are objects: `arrays` is the heap, chatSessions and the turns'   *)
(* local `messages`/`chatHistory` hold references (indices) into it.       *)
(***************************************************************************)
EXTENDS Integers, Sequences, FiniteSets, TLC

VARIABLES variant, arrays, nextArr, chatSessions, workspaceMap, conn, turns, budget

\* the tool transport server (mcp-mongo-project/src/index.js, and its earlier
\* copy src/unnamed/part_004) and the relational connection behind its tools
VARIABLES server, accessKey, transports, sessionKeys, sse, reply, pool, connecting, toolResult

chatVars == <<variant, arrays, nextArr, chatSessions, workspaceMap, conn, turns, budget>>

mcpVars == <<server, accessKey, transports, sessionKeys, sse, reply, pool, connecting, toolResult>>

\* the document-store service (mongo-mcp-service.js and its copy in
\* postgres-mcp-service.js 256-736): `run` is the many-collection discovery
\* run in progress, `call` one application of a function of the service (or
\* of another module) to an argument
VARIABLES run, call

fnVars == <<run, call>>

vars == <<chatVars, mcpVars, fnVars>>

(* ------------------------------ bounds --------------------------------- *)
NumSessions == 2
MaxTurns == 2
MaxBigInputs == 1
MaxIdless == 1
MaxFaults == 1
NumConns == 2
MaxLimit == 5
MaxCollections == 7
SmallCollectionCap == 3
MaxSchemaFaults == 1
MaxPairFaults == 1
MaxSample == 3
MaxLargeSample == 29
MaxTrimMessages == 3
MaxRelationships == 2

(* ------------------------- program constants --------------------------- *)
maxIterations == 15
MAX_TOKENS == 262144
MAX_HISTORY_LENGTH == 25
PRESERVE_SYSTEM_MESSAGES == 2
OpenRouterCeiling == 50
OpenRouterRecent == 20
GeminiCeiling == 5
GeminiRecent == 3
PromptTokens == 746
AckTokens == 22
ContextSuffixTokens == 4

Variants == {"openrouter", "gemini", "cli"}
Sessions == 1..NumSessions
TurnIds == 1..MaxTurns
MaxArrays == NumSessions + MaxTurns
ArrIds == 1..MaxArrays
NoArray == 0
NoWorkspace == "none"
Workspaces == {"w1"}

(* ------------------------------ messages ------------------------------- *)
\* kind: "user" (user text), "text" (assistant/model text), "call" (assistant
\* message with tool_calls / functionCall part), "result" (role tool /
\* functionResponse part). id: tool_call id / tool_call_id (0: the format has
\* none). tok: what countTokens([msg]) yields for the message.
Msg(k, x, i, n) == [kind |-> k, txt |-> x, id |-> i, tok |-> n]

initialChatHistory == << Msg("user", "SYSTEM_PROMPT", 0, PromptTokens),
                         Msg("text", "ack", 0, AckTokens) >>

\* countTokens of a message without parts[0].text: ''.split(/\s+/).length = 1
NoTextTokens == 1

RECURSIVE SumTokens(_, _)
SumTokens(h, n) == IF n = 0 THEN 0 ELSE h[n].tok + SumTokens(h, n - 1)

\* part_003 countTokens: the reduce over the messages
countTokens(h) == SumTokens(h, Len(h))

\* Array.prototype.slice(start, end) with 0-based, already normalised indices
Slice(h, start, end) == IF end <= start THEN <<>> ELSE SubSeq(h, start + 1, end)

\* Array.prototype.slice(-n)
SliceLast(h, n) == Slice(h, IF Len(h) > n THEN Len(h) - n ELSE 0, Len(h))

(* --------------------------- memory management ------------------------- *)
\* part_001: if (messages.length > 50) set(sessionId, [...slice(0,2), ...slice(-20)])
OpenRouterFires(h) == Len(h) > OpenRouterCeiling
OpenRouterTrim(h) == Slice(h, 0, 2) \o SliceLast(h, OpenRouterRecent)

\* (mutant) the count trim keeps one priming message only
MutGeminiCountTrimOnePriming(h) == Slice(h, 0, 1) \o SliceLast(h, GeminiRecent)

\* part_003: if (chatHistory.length > 5) set(sessionId, [...slice(0,2), ...slice(-3)])
GeminiCountFires(h) == Len(h) > GeminiCeiling
GeminiCountTrim(h) == Slice(h, 0, 2) \o SliceLast(h, GeminiRecent)

\* part_003: the for loop of the token trim, at 0-based index i with `tokens`
\* accumulated so far; yields recentMessages
RECURSIVE TokenRecent(_, _, _)
TokenRecent(h, i, tokens) ==
    IF i < 2 THEN <<>>
    ELSE LET msgTokens == countTokens(<<h[i + 1]>>)
         IN IF tokens + msgTokens > MAX_TOKENS THEN <<>>
            ELSE TokenRecent(h, i - 1, tokens + msgTokens) \o <<h[i + 1]>>

GeminiTokenFires(h) == countTokens(h) > MAX_TOKENS
GeminiTokenTrim(h) ==
    LET systemMessages == Slice(h, 0, 2)
    IN systemMessages \o TokenRecent(h, Len(h) - 1, countTokens(systemMessages))

\* client-side trimChatHistory: the backward scan for a functionCall message
\* that is not followed by a functionResponse message
RECURSIVE ValidEndIndex(_, _)
ValidEndIndex(h, i) ==
    IF i < 0 THEN Len(h)
    ELSE IF /\ h[i + 1].kind = "call"
            /\ (i + 1 >= Len(h) \/ h[i + 2].kind # "result")
         THEN i
         ELSE ValidEndIndex(h, i - 1)

Max(a, b) == IF a > b THEN a ELSE b

CliFires(h) == Len(h) > MAX_HISTORY_LENGTH
trimChatHistory(h) ==
    LET validEndIndex == ValidEndIndex(h, Len(h) - 1)
        systemMessages == Slice(h, 0, PRESERVE_SYSTEM_MESSAGES)
        remainingSpace == MAX_HISTORY_LENGTH - PRESERVE_SYSTEM_MESSAGES
        startIndex == Max(PRESERVE_SYSTEM_MESSAGES, validEndIndex - remainingSpace)
    IN systemMessages \o Slice(h, startIndex, validEndIndex)

\* Whether the end-of-turn memory management of variant v stores a new array
\* for a turn whose array holds h, and the array it stores.  In part_003 both
\* policies read the turn's own chatHistory, and the token policy, running
\* last, overwrites what the count policy stored.
Stores(v, h) ==
    CASE v = "openrouter" -> OpenRouterFires(h)
      [] v = "gemini"     -> GeminiCountFires(h) \/ GeminiTokenFires(h)
      [] v = "cli"        -> CliFires(h)

TrimResult(v, h) ==
    CASE v = "openrouter" -> OpenRouterTrim(h)
      [] v = "gemini"     -> IF GeminiTokenFires(h) THEN GeminiTokenTrim(h)
                             ELSE GeminiCountTrim(h)
      [] v = "cli"        -> trimChatHistory(h)

\* The history the session holds after the end-of-turn memory management
EndOfTurnTrim(v, h) == IF Stores(v, h) THEN TrimResult(v, h) ELSE h

(* ------------------------------ texts ---------------------------------- *)
\* the fixed advisory of the variant once iterationCount >= maxIterations
Advisory(v) == IF v = "cli" THEN "maxToolCalls" ELSE "tooComplex"

\* the user-visible text the catch block of askAI / askGemini produces.
\* "noParts": a Gemini candidate whose content has no parts array (an empty
\* completion); parts.find throws a TypeError inside the try block.
Causes == {"rate", "other", "noParts"}
ErrorText(v, cause) ==
    CASE v = "openrouter" -> IF cause = "rate" THEN "rateLimit" ELSE "genericError"
      [] v = "gemini"     -> IF cause = "rate" THEN "limitsError" ELSE "genericError"
      [] v = "cli"        -> "genericError"

OracleTexts == {"answer", "noResponse"}
NoResponseTokens == 5
TextTokens(x) == IF x = "noResponse" THEN NoResponseTokens ELSE NoTextTokens

\* words of message.userMessage; only part_003 counts tokens, and there the
\* appended " {workspace_id: '..', date: '..'}" adds ContextSuffixTokens words
UserWords(v) == IF v = "gemini" THEN {1, MAX_TOKENS} ELSE {1}
ToolResults == {"ok", "toolError", "noContent"}
OracleIds == {1}
RandomIds == {2, 3}
NoId == 0

(* ------------------------------ authorize ------------------------------ *)
AccessTokens == {"", "unknown", "inactive", "archived", "valid"}
WorkspaceHeaders == {""} \cup Workspaces

\* part_000 authorize: "ok" or the message of the Error it throws
authorize(accessToken, workspaceID, storeUp) ==
    IF accessToken = "" THEN "Authorization header not found"
    ELSE IF workspaceID = "" THEN "Workspace header not found"
    ELSE IF ~storeUp \/ accessToken = "unknown" THEN "DB error"
    ELSE IF accessToken = "inactive" THEN "User is not activated"
    ELSE IF accessToken = "archived" THEN "User is archived"
    ELSE "ok"

(* ------------------- transport server: its data ------------------------ *)
\* "index": mcp-mongo-project/src/index.js; "part_004": src/unnamed/part_004,
\* the copy without access key and without relational tools
Servers == {"index", "part_004"}

\* process.env.ACCESS_KEY and req.query.authorization: NoKey is undefined (the
\* variable is not set, the parameter is absent)
NoKey == "absent"
ConfiguredKeys == {NoKey, "", "k1"}
ProvidedKeys == {NoKey, "", "k1", "k2", "undefined"}

\* the connections that may be made, each named by the transport.sessionId it
\* would get; the sessionId values a POST /messages may carry besides
Conns == {"c" \o ToString(i) : i \in 1..NumConns}
NoConn == "none"
PrototypeNames == {"constructor"}
SessionIds == Conns \cup {"forged"} \cup PrototypeNames

\* transports[sessionId] on the plain object `transports`: a registered
\* transport, a member inherited from Object.prototype, or undefined
TransportAt(id) ==
    IF id \in transports THEN "transport"
    ELSE IF id \in PrototypeNames THEN "inherited"
    ELSE "undefined"

Falsy(k) == k \in {NoKey, ""}

\* (mutant) the check without its !providedKey half
MutKeyAcceptedNoFalsy(providedKey, key) == providedKey = key

\* index.js 626: !(!providedKey || providedKey !== accessKey)
KeyAccepted(providedKey, key) == ~(Falsy(providedKey) \/ providedKey # key)

NoReply == [route |-> "none", status |-> 0, body |-> "", forwarded |-> NoConn]
Reply(r, st, b, f) == [route |-> r, status |-> st, body |-> b, forwarded |-> f]

\* the outcome of the last relational tool call: the text handed to
\* DatabaseConnection.query (sent, <<>>: none) and the pool that served it
NoToolResult == [tool |-> "none", operation |-> "", query |-> <<>>, kind |-> "none",
                 sent |-> <<>>, served |-> "none"]

(* ------------------------------- state --------------------------------- *)
\* A turn is one run of the chat_message handler (one pass of the while(true)
\* body of startChat in the terminal client).  Its record holds the handler's
\* position and locals, which go out of scope when the handler returns:
\*   st             "idle" not started, "oracle" awaiting the completion
\*                  request, "tool" awaiting mcpClient.callTool, "done"
\*   ref            the array the handler's local messages/chatHistory names
\*   reqRef         the array askAI read from chatSessions for its last request
\*   pendingId      toolCall.id of the tool call being executed (NoId: absent)
\*   oracleCalls, toolCalls   the invocations the turn has made so far
\*   toolEvents     the tool_call events the handler has emitted so far
\*   event/payload  the event the handler emitted last and its content
IdleTurn == [st |-> "idle", sid |-> 0, ref |-> NoArray, reqRef |-> NoArray,
             iterationCount |-> 0, pendingId |-> NoId,
             oracleCalls |-> 0, toolCalls |-> 0, toolEvents |-> 0,
             event |-> "none", payload |-> ""]

\* budget: what the environment may still do in this run:
\*   sockets    the sockets that may still connect
\*   turns[s]   chat messages socket s may still send
\*   overlap    whether a chat message may arrive while a turn is in flight on
\*              the same socket (overlap.same) or on another one (overlap.other)
\*   big        over-long user messages
\*   idless     tool calls that carry no id
\*   faults     rate-limit failures, empty completions, and tool results that
\*              are not a success payload
ChatInit(vs, b) ==
    /\ variant \in vs
    /\ turns = [t \in TurnIds |-> IdleTurn]
    /\ budget = b
    /\ nextArr = (IF variant = "cli" THEN 2 ELSE 1)
    /\ workspaceMap = [s \in Sessions |-> NoWorkspace]
    \* the terminal client pushes the priming pair into its one global
    \* chatHistory before startChat runs; it has no sockets
    /\ arrays = [a \in ArrIds |->
                    IF variant = "cli" /\ a = 1 THEN initialChatHistory ELSE <<>>]
    /\ chatSessions = [s \in Sessions |-> IF variant = "cli" /\ s = 1 THEN 1 ELSE NoArray]
    /\ conn = [s \in Sessions |-> IF variant = "cli" /\ s = 1 THEN "connected" ELSE "new"]

\* the transport server at rest, as the chat servers' specifications leave it
McpQuiet ==
    /\ server = "index"
    /\ accessKey = "k1"
    /\ transports = {}
    /\ sessionKeys = [id \in SessionIds |-> NoKey]
    /\ sse = [c \in Conns |-> "none"]
    /\ reply = NoReply
    /\ pool = "startup"
    /\ connecting = NoConn
    /\ toolResult = NoToolResult

\* no discovery run, no function applied
NoRun == [phase |-> "idle"]
NoCall == [fn |-> "none"]
FnQuiet == run = NoRun /\ call = NoCall

InitWith(vs, b) == ChatInit(vs, b) /\ McpQuiet /\ FnQuiet

\* sockets side by side, one turn each, turns of different sockets interleaved
Concurrent == [sockets |-> Sessions, turns |-> [s \in Sessions |-> 1], overlap |-> [same |-> FALSE, other |-> TRUE],
               big |-> MaxBigInputs, idless |-> 0, faults |-> 0]

\* turn after turn on the first socket, next to an idle second socket
Sequential == [sockets |-> Sessions, turns |-> [s \in Sessions |-> IF s = 1 THEN MaxTurns ELSE 0],
               overlap |-> [same |-> FALSE, other |-> FALSE],
               big |-> MaxBigInputs, idless |-> 0, faults |-> 0]

\* one turn with ill-formed oracle and tool traffic
Faulty == [sockets |-> {1}, turns |-> [s \in Sessions |-> IF s = 1 THEN 1 ELSE 0],
           overlap |-> [same |-> FALSE, other |-> FALSE],
           big |-> 0, idless |-> MaxIdless, faults |-> MaxFaults]

\* turns of one socket interleaved at their awaits
Overlapping == [sockets |-> {1}, turns |-> [s \in Sessions |-> IF s = 1 THEN MaxTurns ELSE 0],
                overlap |-> [same |-> TRUE, other |-> FALSE],
                big |-> 0, idless |-> 0, faults |-> 0]

Init == \E b \in {Concurrent, Sequential, Faulty} : InitWith(Variants, b)

InitOverlap == \E b \in {Overlapping, Sequential} : InitWith(Variants, b)

InitFaulty == InitWith(Variants, Faulty)

\* the history the session map holds for s (<<>> when it holds none)
History(s) == IF chatSessions[s] = NoArray THEN <<>> ELSE arrays[chatSessions[s]]

\* arrays no reference reaches any more are garbage
Collect(arr, cs, ts) ==
    [a \in ArrIds |->
        IF (\E s \in Sessions : cs[s] = a)
              \/ (\E t \in TurnIds : ts[t].st \in {"oracle", "tool"} /\ ts[t].ref = a)
        THEN arr[a] ELSE <<>>]

(* ------------------------- the end of a turn --------------------------- *)
\* (mutant) the advisory is forgotten
MutFinalResponseNoAdvisory(v, iterationCount, fr) == fr

\* the text of chat_response: the advisory replaces whatever the loop left in
\* finalResponse once iterationCount has reached maxIterations
FinalResponse(v, iterationCount, fr) ==
    IF iterationCount >= maxIterations THEN Advisory(v) ELSE fr

\* From the end of the while loop to the end of the handler: the advisory,
\* the memory management, the chat_response.  r is the turn after the loop,
\* arr the heap after its pushes, fr the finalResponse the loop left.
EndTurn(t, r, arr, fr) ==
    LET final == FinalResponse(variant, r.iterationCount, fr)
        h == arr[r.ref]
        ts == [turns EXCEPT ![t] = [IdleTurn EXCEPT !.st = "done", !.sid = r.sid,
                                                    !.event = "chat_response",
                                                    !.payload = final]]
        cs == IF Stores(variant, h) THEN [chatSessions EXCEPT ![r.sid] = nextArr]
              ELSE chatSessions
    IN /\ turns' = ts
       /\ chatSessions' = cs
       /\ IF Stores(variant, h)
          THEN /\ arrays' = Collect([arr EXCEPT ![nextArr] = TrimResult(variant, h)], cs, ts)
               /\ nextArr' = nextArr + 1
          ELSE /\ arrays' = Collect(arr, cs, ts)
               /\ UNCHANGED nextArr

\* The head of the while loop after the previous response was handled: either
\* the next askAI call, up to its first await, or the end of the turn.  askAI
\* reads chatSessions.get(sessionId) again; with the entry deleted the request
\* cannot be built (part_001: messages.map throws on undefined; part_003:
\* generateContent is handed no contents) and the catch block returns type
\* 'error'.
LoopOrEnd(t, r, arr) ==
    IF r.iterationCount < maxIterations
    THEN LET r1 == [r EXCEPT !.iterationCount = @ + 1]
         IN IF chatSessions[r.sid] = NoArray
            THEN EndTurn(t, r1, arr, ErrorText(variant, "other"))
            ELSE /\ turns' = [turns EXCEPT ![t] =
                                 [r1 EXCEPT !.st = "oracle",
                                            !.reqRef = chatSessions[r.sid],
                                            !.oracleCalls = @ + 1]]
                 /\ arrays' = arr
                 /\ UNCHANGED <<chatSessions, nextArr>>
    ELSE EndTurn(t, r, arr, "")

(* ----------------------------- connections ----------------------------- *)
\* (mutant) the workspace is bound before authorize has answered
MutAuthorizeBindsFirst(s, accessToken, workspace, storeUp) ==
    /\ variant # "cli"
    /\ s \in budget.sockets
    /\ conn[s] = "new"
    /\ workspaceMap' = [workspaceMap EXCEPT ![s] = IF workspace = "" THEN NoWorkspace ELSE workspace]
    /\ conn' = [conn EXCEPT ![s] = IF authorize(accessToken, workspace, storeUp) = "ok"
                                   THEN "authorized" ELSE "rejected"]
    /\ UNCHANGED <<variant, arrays, nextArr, chatSessions, turns, budget, mcpVars, fnVars>>

\* io.use middleware: authorize, then bind the workspace to the socket id
Authorize(s, accessToken, workspace, storeUp) ==
    /\ variant # "cli"
    /\ s \in budget.sockets
    /\ conn[s] = "new"
    /\ IF authorize(accessToken, workspace, storeUp) = "ok"
       THEN /\ workspaceMap' = [workspaceMap EXCEPT ![s] = workspace]
            /\ conn' = [conn EXCEPT ![s] = "authorized"]
       ELSE /\ conn' = [conn EXCEPT ![s] = "rejected"]
            /\ UNCHANGED workspaceMap
    /\ UNCHANGED <<variant, arrays, nextArr, chatSessions, turns, budget, mcpVars, fnVars>>

\* (mutant) initialChatHistory hoisted out of the handler: one array object
\* shared by every socket
MutOnConnectionSharedArray(s) ==
    /\ variant # "cli"
    /\ conn[s] = "authorized"
    /\ arrays' = [arrays EXCEPT ![1] = IF nextArr = 1 THEN initialChatHistory ELSE @]
    /\ chatSessions' = [chatSessions EXCEPT ![s] = 1]
    /\ nextArr' = (IF nextArr = 1 THEN 2 ELSE nextArr)
    /\ conn' = [conn EXCEPT ![s] = "connected"]
    /\ UNCHANGED <<variant, workspaceMap, turns, budget, mcpVars, fnVars>>

\* io.on('connection'): a fresh primed history for the socket id
OnConnection(s) ==
    /\ variant # "cli"
    /\ conn[s] = "authorized"
    /\ arrays' = [arrays EXCEPT ![nextArr] = initialChatHistory]
    /\ chatSessions' = [chatSessions EXCEPT ![s] = nextArr]
    /\ nextArr' = nextArr + 1
    /\ conn' = [conn EXCEPT ![s] = "connected"]
    /\ UNCHANGED <<variant, workspaceMap, turns, budget, mcpVars, fnVars>>

\* socket.on('disconnect')
Disconnect(s) ==
    /\ variant # "cli"
    /\ conn[s] = "connected"
    /\ chatSessions' = [chatSessions EXCEPT ![s] = NoArray]
    /\ arrays' = Collect(arrays, chatSessions', turns)
    /\ conn' = [conn EXCEPT ![s] = "closed"]
    /\ UNCHANGED <<variant, nextArr, workspaceMap, turns, budget, mcpVars, fnVars>>

(* ------------------------------- turns --------------------------------- *)
\* t is the next free handler run; the terminal client reads the next line
\* only when the previous turn has ended
MayStart(t, s) ==
    /\ budget.turns[s] > 0
    /\ turns[t].st = "idle"
    /\ \A u \in TurnIds : u < t => turns[u].st # "idle"
    /\ conn[s] = "connected"
    /\ \A u \in TurnIds :
          turns[u].st \in {"oracle", "tool"}
             => /\ variant # "cli"
                /\ IF turns[u].sid = s THEN budget.overlap.same ELSE budget.overlap.other

\* socket.on('chat_message') with an empty message
ChatMessageEmpty(t, s) ==
    /\ variant # "cli"
    /\ MayStart(t, s)
    /\ budget' = [budget EXCEPT !.turns[s] = @ - 1]
    /\ turns' = [turns EXCEPT ![t] = [IdleTurn EXCEPT !.st = "done", !.sid = s,
                                                      !.event = "error",
                                                      !.payload = "Message is required"]]
    /\ UNCHANGED <<variant, arrays, nextArr, chatSessions, workspaceMap, conn, mcpVars, fnVars>>

\* socket.on('chat_message') / one line read by startChat: the user message is
\* pushed and the loop runs to the first await of askAI
ChatMessage(t, s, words) ==
    /\ MayStart(t, s)
    /\ words > 1 => budget.big > 0
    /\ budget' = [budget EXCEPT !.turns[s] = @ - 1,
                                !.big = IF words > 1 THEN @ - 1 ELSE @]
    /\ IF variant # "cli" /\ workspaceMap[s] = NoWorkspace
       THEN /\ turns' = [turns EXCEPT ![t] = [IdleTurn EXCEPT !.st = "done", !.sid = s,
                                                !.event = "error",
                                                !.payload = "Workspace ID is required"]]
            /\ UNCHANGED <<arrays, nextArr, chatSessions>>
       ELSE LET a == chatSessions[s]
                userInput == Msg("user", "input", NoId, words + ContextSuffixTokens)
            IN LoopOrEnd(t, [IdleTurn EXCEPT !.sid = s, !.ref = a],
                         [arrays EXCEPT ![a] = Append(@, userInput)])
    /\ UNCHANGED <<variant, workspaceMap, conn, mcpVars, fnVars>>

\* the completion request resolves with text (or with neither text nor a tool
\* call: the 'no response' fallback text)
OracleText(t, x) ==
    /\ turns[t].st = "oracle"
    /\ x = "noResponse" => budget.faults > 0
    /\ budget' = [budget EXCEPT !.faults = IF x = "noResponse" THEN @ - 1 ELSE @]
    /\ EndTurn(t, turns[t],
               [arrays EXCEPT ![turns[t].ref] = Append(@, Msg("text", x, NoId, TextTokens(x)))],
               x)
    /\ UNCHANGED <<variant, workspaceMap, conn, mcpVars, fnVars>>

\* the completion request fails: HTTP error, rejected fetch, malformed body
OracleFails(t, cause) ==
    /\ turns[t].st = "oracle"
    /\ cause = "noParts" => variant # "openrouter"
    /\ cause # "other" => budget.faults > 0
    /\ budget' = [budget EXCEPT !.faults = IF cause # "other" THEN @ - 1 ELSE @]
    /\ EndTurn(t, turns[t], arrays, ErrorText(variant, cause))
    /\ UNCHANGED <<variant, workspaceMap, conn, mcpVars, fnVars>>

\* the completion request resolves with a tool call whose arguments parse:
\* askAI goes on to await mcpClient.callTool
OracleRequestsTool(t, id) ==
    /\ turns[t].st = "oracle"
    /\ id = NoId \/ variant = "openrouter"
    /\ (variant = "openrouter" /\ id = NoId) => budget.idless > 0
    /\ budget' = [budget EXCEPT !.idless =
                     IF variant = "openrouter" /\ id = NoId THEN @ - 1 ELSE @]
    /\ turns' = [turns EXCEPT ![t] = [@ EXCEPT !.st = "tool", !.pendingId = id,
                                               !.toolCalls = @ + 1]]
    /\ UNCHANGED <<variant, arrays, nextArr, chatSessions, workspaceMap, conn, mcpVars, fnVars>>

\* part_001 only: JSON.parse(toolCall.function.arguments) throws, askAI's catch
\* turns it into type 'error' before any tool is called
OracleRequestsToolBadArgs(t) ==
    /\ turns[t].st = "oracle"
    /\ variant = "openrouter"
    /\ EndTurn(t, turns[t], arrays, ErrorText(variant, "other"))
    /\ UNCHANGED <<variant, workspaceMap, conn, budget, mcpVars, fnVars>>

\* (mutant) the tool-invocation message is pushed without its result
MutToolPairNoResult(pendingId, res, rnd1, rnd2) ==
    << Msg("call", "", IF pendingId # NoId THEN pendingId ELSE rnd1, NoTextTokens) >>

\* the two messages of a tool round-trip.  Without toolCall.id each of them
\* draws its own 'call_' + Math.random() id (rnd1, rnd2).
ToolPair(pendingId, res, rnd1, rnd2) ==
    << Msg("call", "", IF pendingId # NoId THEN pendingId ELSE rnd1, NoTextTokens),
       Msg("result", res, IF pendingId # NoId THEN pendingId ELSE rnd2, NoTextTokens) >>

\* mcpClient.callTool resolves (also when the tool handler caught a backend
\* failure and answered with the error as text, or with no content): askAI
\* returns type 'tool_call' with the result in it, the handler emits the
\* tool_call event (socket servers), pushes the tool-call message and the
\* tool-result message, and loops.
ToolReturns(t, res, rnd1, rnd2) ==
    /\ turns[t].st = "tool"
    /\ IF turns[t].pendingId = NoId /\ variant = "openrouter"
       THEN rnd1 # NoId /\ rnd2 # NoId
       ELSE rnd1 = NoId /\ rnd2 = NoId
    /\ res # "ok" => budget.faults > 0
    /\ budget' = [budget EXCEPT !.faults = IF res # "ok" THEN @ - 1 ELSE @]
    /\ LoopOrEnd(t, IF variant = "cli" THEN turns[t]
                    ELSE [turns[t] EXCEPT !.toolEvents = @ + 1, !.event = "tool_call",
                                          !.payload = ""],
                 [arrays EXCEPT ![turns[t].ref] =
                     @ \o ToolPair(turns[t].pendingId, res, rnd1, rnd2)])
    /\ UNCHANGED <<variant, workspaceMap, conn, mcpVars, fnVars>>

\* (mutant) the rejection of callTool escapes askAI and the handler: the turn
\* ends without an event
MutToolThrowsUncaught(t) ==
    /\ turns[t].st = "tool"
    /\ turns' = [turns EXCEPT ![t] = [IdleTurn EXCEPT !.st = "done", !.sid = turns[t].sid]]
    /\ arrays' = Collect(arrays, chatSessions, turns')
    /\ UNCHANGED <<variant, nextArr, chatSessions, workspaceMap, conn, budget, mcpVars, fnVars>>

\* mcpClient.callTool rejects (transport error, request timeout): the catch
\* block of askAI / askGemini turns it into type 'error'
ToolThrows(t) ==
    /\ turns[t].st = "tool"
    /\ EndTurn(t, turns[t], arrays, ErrorText(variant, "other"))
    /\ UNCHANGED <<variant, workspaceMap, conn, budget, mcpVars, fnVars>>

Next ==
    \/ \E s \in Sessions, a \in AccessTokens, w \in WorkspaceHeaders, up \in BOOLEAN :
          Authorize(s, a, w, up)
    \/ \E s \in Sessions : OnConnection(s)
    \/ \E s \in Sessions : Disconnect(s)
    \/ \E t \in TurnIds, s \in Sessions : ChatMessageEmpty(t, s)
    \/ \E t \in TurnIds, s \in Sessions : \E w \in UserWords(variant) : ChatMessage(t, s, w)
    \/ \E t \in TurnIds, x \in OracleTexts : OracleText(t, x)
    \/ \E t \in TurnIds, c \in Causes : OracleFails(t, c)
    \/ \E t \in TurnIds, i \in OracleIds \cup {NoId} : OracleRequestsTool(t, i)
    \/ \E t \in TurnIds : OracleRequestsToolBadArgs(t)
    \/ \E t \in TurnIds, res \in ToolResults, r1, r2 \in RandomIds \cup {NoId} :
          ToolReturns(t, res, r1, r2)
    \/ \E t \in TurnIds : ToolThrows(t)

Spec == Init /\ [][Next]_vars

SpecOverlap == InitOverlap /\ [][Next]_vars

\* every completion request and every tool call of a turn is answered
TurnResponds(t) ==
    \/ \E x \in OracleTexts : OracleText(t, x)
    \/ \E c \in Causes : OracleFails(t, c)
    \/ \E i \in OracleIds \cup {NoId} : OracleRequestsTool(t, i)
    \/ OracleRequestsToolBadArgs(t)
    \/ \E res \in ToolResults, r1, r2 \in RandomIds \cup {NoId} : ToolReturns(t, res, r1, r2)
    \/ ToolThrows(t)

FairSpec == InitFaulty /\ [][Next]_vars /\ \A t \in TurnIds : WF_vars(TurnResponds(t))

InFlight(t) == turns[t].st \in {"oracle", "tool"}

(* ======================================================================= *)
(* The tool transport server                                               *)
(* ======================================================================= *)
\* app.get('/sse'): the connection that would become session c, with the
\* authorization parameter providedKey; connectOk: server.connect(transport)
\* resolves rather than throws
GetSse(c, providedKey, connectOk) ==
    /\ sse[c] = "none"
    /\ IF server = "index" /\ ~KeyAccepted(providedKey, accessKey)
       THEN /\ reply' = Reply("sse", 401, "Unauthorized: invalid access key", NoConn)
            /\ sse' = [sse EXCEPT ![c] = "rejected"]
            /\ UNCHANGED <<transports, sessionKeys>>
       ELSE /\ transports' = transports \cup {c}
            /\ sessionKeys' = IF server = "index"
                              THEN [sessionKeys EXCEPT ![c] = providedKey]
                              ELSE sessionKeys
            /\ IF connectOk
               THEN /\ sse' = [sse EXCEPT ![c] = "open"]
                    /\ reply' = Reply("sse", 200, "event-stream", NoConn)
               ELSE /\ sse' = [sse EXCEPT ![c] = "failed"]
                    /\ reply' = IF server = "index"
                                THEN Reply("sse", 500, "Failed to establish SSE connection", NoConn)
                                ELSE Reply("sse", 0, "", NoConn)
    /\ UNCHANGED <<server, accessKey, pool, connecting, toolResult, chatVars, fnVars>>

\* (mutant) the close handler forgets the stored credential
MutCloseSseKeepsKey(c) ==
    /\ sse[c] \in {"open", "failed"}
    /\ transports' = transports \ {c}
    /\ sse' = [sse EXCEPT ![c] = "closed"]
    /\ UNCHANGED <<server, accessKey, sessionKeys, reply, pool, connecting, toolResult, chatVars, fnVars>>

\* res.on("close") of an accepted connection
CloseSse(c) ==
    /\ sse[c] \in {"open", "failed"}
    /\ transports' = transports \ {c}
    /\ sessionKeys' = [sessionKeys EXCEPT ![c] = NoKey]
    /\ sse' = [sse EXCEPT ![c] = "closed"]
    /\ UNCHANGED <<server, accessKey, reply, pool, connecting, toolResult, chatVars, fnVars>>

\* app.post('/messages') with ?sessionId=id; providedKey is the credential the
\* request itself carries (none of the handlers reads it); handled:
\* transport.handlePostMessage resolves rather than throws.  In part_004 a
\* rejected handler promise is nobody's (no reply), or the framework's error
\* handler answers 500.
PostMessages(id, providedKey, handled, framework500) ==
    /\ IF server = "index" /\ (Falsy(sessionKeys[id]) \/ sessionKeys[id] # accessKey)
       THEN reply' = Reply("messages", 401, "Unauthorized: invalid session", NoConn)
       ELSE CASE TransportAt(id) = "transport" ->
                   reply' = IF handled THEN Reply("messages", 202, "Accepted", id)
                            ELSE IF server = "index" \/ framework500
                            THEN Reply("messages", 500, "Failed to handle message", id)
                            ELSE Reply("messages", 0, "", id)
              [] TransportAt(id) = "inherited" ->
                   \* truthy, and handlePostMessage is not a function
                   reply' = IF server = "index" \/ framework500
                            THEN Reply("messages", 500, "Failed to handle message", NoConn)
                            ELSE Reply("messages", 0, "", NoConn)
              [] TransportAt(id) = "undefined" ->
                   reply' = Reply("messages", 400, "No transport found for sessionId", NoConn)
    /\ UNCHANGED <<server, accessKey, transports, sessionKeys, sse, pool, connecting,
                   toolResult, chatVars, fnVars>>

(* ------------------------- relational executor ------------------------- *)
\* A query text is a sequence of pieces: single characters where the code
\* looks at characters, longer strings for the fixed text the code adds.
Whitespace == {" ", "\n", "\t"}

LowerChar(c) ==
    CASE c = "S" -> "s" [] c = "E" -> "e" [] c = "L" -> "l" [] c = "C" -> "c"
      [] c = "T" -> "t" [] c = "W" -> "w" [] c = "I" -> "i" [] c = "H" -> "h"
      [] OTHER -> c

toLowerCase(q) == [i \in 1..Len(q) |-> LowerChar(q[i])]

RECURSIVE trimStart(_)
trimStart(q) == IF q # <<>> /\ Head(q) \in Whitespace THEN trimStart(Tail(q)) ELSE q

RECURSIVE trimEnd(_)
trimEnd(q) ==
    IF q # <<>> /\ q[Len(q)] \in Whitespace THEN trimEnd(SubSeq(q, 1, Len(q) - 1)) ELSE q

trim(q) == trimEnd(trimStart(q))

startsWith(q, w) == Len(q) >= Len(w) /\ SubSeq(q, 1, Len(w)) = w

includes(q, w) == \E i \in 1..(Len(q) - Len(w) + 1) : SubSeq(q, i, i + Len(w) - 1) = w

select == <<"s", "e", "l", "e", "c", "t">>
with == <<"w", "i", "t", "h">>
limitWord == <<"l", "i", "m", "i", "t">>

QueryLeads == { <<>>, <<"\n", " ">>, <<"(">> }
QueryWords == { select, <<"S", "e", "L", "E", "c", "T">>, <<"W", "I", "T", "H">>,
                <<"s", "e", "l", "e", "c">>, <<"s", "h", "o", "w">>,
                <<"d", "r", "o", "p">>, <<>> }
QueryTails == { <<" ", "x", "\t">>, <<" ", "x", " ">> \o limitWord \o <<" ", "1">> }
Queries == { l \o w \o t : l \in QueryLeads, w \in QueryWords, t \in QueryTails }

Operations == {"select", "count", "exists"}
NoLimit == 0
Limits == {NoLimit, MaxLimit}

\* (mutant) the guard looks at the first letter only
MutIsSelectLikeFirstLetter(query) ==
    LET trimmedQuery == toLowerCase(trim(query))
    IN startsWith(trimmedQuery, <<"s">>) \/ startsWith(trimmedQuery, <<"w">>)

\* index.js 405-407, postgres-mcp-service.js 197-198
IsSelectLike(query) ==
    LET trimmedQuery == toLowerCase(trim(query))
    IN startsWith(trimmedQuery, select) \/ startsWith(trimmedQuery, with)

\* the text the operation hands to executeQuery
QueryText(operation, query, limit) ==
    CASE operation = "select" ->
           IF limit # NoLimit /\ ~includes(toLowerCase(trim(query)), limitWord)
           THEN query \o <<" LIMIT ", ToString(limit)>> ELSE query
      [] operation = "count" ->
           <<"SELECT COUNT(*) as total FROM (">> \o query \o <<") as subquery">>
      [] operation = "exists" ->
           <<"SELECT EXISTS (">> \o query \o <<") as exists">>

\* DatabaseConnection.pool: "startup" the pool established when the process
\* started, "ended" that pool (or a later one) after pool.end() was called on
\* it, "other" a pool made from a connection string a tool call supplied
Pools == {"startup", "ended", "other"}

\* DatabaseConnection.query on the pool as it is: rows of the database the
\* pool points at, or the error of a pool that was ended
QueryOutcome(p) == IF p = "ended" THEN "error" ELSE "rows"

\* handler of pg_execute_query (executor = "handler") and
\* PostgresMcpService.executeOperation (executor = "service") for session c.
\* A rejected query ends in the handler's catch block (as text) or as the
\* McpError the service throws; an accepted one goes to db.query.
ExecuteQuery(c, executor, operation, query, limit) ==
    /\ server = "index"
    /\ sse[c] = "open"
    /\ toolResult' =
          IF ~IsSelectLike(query) \/ operation \notin Operations
          THEN [tool |-> executor, operation |-> operation, query |-> query,
                kind |-> "error", sent |-> <<>>, served |-> "none"]
          ELSE [tool |-> executor, operation |-> operation, query |-> query,
                kind |-> QueryOutcome(pool),
                sent |-> QueryText(operation, query, limit), served |-> pool]
    /\ UNCHANGED <<server, accessKey, transports, sessionKeys, sse, reply, pool,
                   connecting, chatVars, fnVars>>

\* handler of pg_get_schema_info without connectionString: the schema query on
\* the pool as it is
PgGetSchemaInfo(c) ==
    /\ server = "index"
    /\ sse[c] = "open"
    /\ toolResult' = [tool |-> "pg_get_schema_info", operation |-> "", query |-> <<>>,
                      kind |-> QueryOutcome(pool),
                      sent |-> <<"SELECT table_name FROM information_schema.tables">>,
                      served |-> pool]
    /\ UNCHANGED <<server, accessKey, transports, sessionKeys, sse, reply, pool,
                   connecting, chatVars, fnVars>>

\* handler of pg_get_schema_info (likewise pg_get_sample_data and
\* pg_analyze_relationships) with a connectionString, to its first await:
\* postgresService.connect -> DatabaseConnection.connect -> disconnect ->
\* pool.end()
PgConnectBegins(c) ==
    /\ server = "index"
    /\ sse[c] = "open"
    /\ connecting = NoConn
    /\ connecting' = c
    /\ pool' = "ended"
    /\ UNCHANGED <<server, accessKey, transports, sessionKeys, sse, reply, toolResult,
                   chatVars, fnVars>>

\* pool.end() resolved: this.pool = null, this.pool = new Pool(connectionString),
\* the connection test, and the schema query on the new pool (reachable: the
\* tool call answers with the schema; not: with the error as text)
PgConnectEnds(reachable) ==
    /\ connecting # NoConn
    /\ connecting' = NoConn
    /\ pool' = "other"
    /\ toolResult' = [tool |-> "pg_get_schema_info", operation |-> "", query |-> <<>>,
                      kind |-> IF reachable THEN "rows" ELSE "error",
                      sent |-> IF reachable
                               THEN <<"SELECT table_name FROM information_schema.tables">>
                               ELSE <<>>,
                      served |-> IF reachable THEN "other" ELSE "none"]
    /\ UNCHANGED <<server, accessKey, transports, sessionKeys, sse, reply, chatVars, fnVars>>

\* the transport server after start-up: both stores connected, no client yet
McpInit ==
    /\ server \in Servers
    /\ accessKey \in (IF server = "index" THEN ConfiguredKeys ELSE {NoKey})
    /\ transports = {}
    /\ sessionKeys = [id \in SessionIds |-> NoKey]
    /\ sse = [c \in Conns |-> "none"]
    /\ reply = NoReply
    /\ pool = "startup"
    /\ connecting = NoConn
    /\ toolResult = NoToolResult

InitMcp == ChatInit({"openrouter"}, Faulty) /\ McpInit /\ FnQuiet

\* connections, their ends, and requests on /messages
NextMcp ==
    \/ \E c \in Conns, k \in ProvidedKeys, ok \in BOOLEAN : GetSse(c, k, ok)
    \/ \E c \in Conns : CloseSse(c)
    \/ \E id \in SessionIds, k \in ProvidedKeys, h, f \in BOOLEAN : PostMessages(id, k, h, f)

SpecMcp == InitMcp /\ [][NextMcp]_vars

InitTools == InitWith({"openrouter"}, Faulty)

\* clients holding the access key, and their calls of the query tool
NextExecutor ==
    \/ \E c \in Conns : GetSse(c, accessKey, TRUE)
    \/ \E c \in Conns, e \in {"handler", "service"}, op \in Operations \cup {"delete"},
          q \in Queries, l \in Limits :
          /\ e = "handler" => op \in Operations
          /\ ExecuteQuery(c, e, op, q, l)

SpecExecutor == InitTools /\ [][NextExecutor]_vars

\* clients holding the access key, and their calls of the relational tools,
\* the schema tool with and without a connection string
NextPool ==
    \/ \E c \in Conns : GetSse(c, accessKey, TRUE)
    \/ \E c \in Conns : CloseSse(c)
    \/ \E c \in Conns, op \in Operations, q \in {select, <<"d", "r", "o", "p">>} :
          ExecuteQuery(c, "handler", op, q, NoLimit)
    \/ \E c \in Conns : PgGetSchemaInfo(c)
    \/ \E c \in Conns : PgConnectBegins(c)
    \/ \E r \in BOOLEAN : PgConnectEnds(r)

SpecPool == InitTools /\ [][NextPool]_vars

(* ======================================================================= *)
(* The many-collection discovery run                                       *)
(* ======================================================================= *)
\* analyzeCollectionRelationships (postgres-mcp-service.js 405-476).  The
\* collections of the store are numbered 0..all-1 in the order
\* listCollections returns them.  A run is in phase
\*   "schemas"  awaiting the schema of collection k (or its 5 s timeout)
\*   "pairs"    awaiting findRelationshipBetweenCollections for (i, j)
\*   "done"     returned its result, "failed" rejected
\* schemas: the collections a schema was stored for; attempted: the pairs
\* findRelationshipBetweenCollections was called for; found: the length of
\* `relationships`.
maxCombinations == 20
DefaultMaxCollections == 10
CollectionCaps == {SmallCollectionCap, DefaultMaxCollections}

Min(a, b) == IF a < b THEN a ELSE b

\* collections.length
Analysed(r) == Min(r.all, r.maxCollections)

\* the note of the result
Note(r) == IF Analysed(r) < r.all THEN "limited" ELSE "all"

\* The two for loops from the test of the inner loop at (i, j) with
\* combinationCount = c up to the next await or the return: pairs without
\* both schemas are counted and passed over without an await.
RECURSIVE Scan(_, _, _, _)
Scan(r, i, j, c) ==
    IF i >= Analysed(r) \/ c >= maxCombinations
    THEN [r EXCEPT !.phase = "done", !.i = i, !.j = j, !.combinationCount = c,
                   !.note = Note(r)]
    ELSE IF j >= Analysed(r) THEN Scan(r, i + 1, i + 2, c)
    ELSE IF i \in r.schemas /\ j \in r.schemas
    THEN [r EXCEPT !.phase = "pairs", !.i = i, !.j = j, !.combinationCount = c]
    ELSE Scan(r, i, j + 1, c + 1)

\* the loop over the collections from its test at collection k
SchemaLoop(r, k) ==
    IF k >= Analysed(r) THEN Scan(r, 0, 1, 0)
    ELSE [r EXCEPT !.phase = "schemas", !.k = k]

\* the call of the tool: listCollections answers with n names, or rejects, and
\* the outer catch block rethrows
StartDiscovery(n, cap, listed) ==
    /\ run.phase = "idle"
    /\ run' = IF ~listed THEN [phase |-> "failed"]
              ELSE SchemaLoop([phase |-> "schemas", all |-> n, maxCollections |-> cap,
                               k |-> 0, schemas |-> {}, i |-> 0, j |-> 0,
                               combinationCount |-> 0, attempted |-> {}, found |-> 0,
                               schemaFaults |-> 0, pairFaults |-> 0, note |-> ""], 0)
    /\ UNCHANGED <<chatVars, mcpVars, call>>

SchemaOutcomes == {"schema", "error", "timeout"}

\* Promise.race([schemaPromise, timeoutPromise]) settles for collection k:
\* with the schema, with the error of getCollectionSchema (the collection is
\* empty, the store failed), or with the timeout
SchemaSettles(outcome) ==
    /\ run.phase = "schemas"
    /\ outcome # "schema" => run.schemaFaults < MaxSchemaFaults
    /\ run' = SchemaLoop([run EXCEPT !.schemas = IF outcome = "schema"
                                                 THEN @ \cup {run.k} ELSE @,
                                     !.schemaFaults = IF outcome = "schema" THEN @ ELSE @ + 1],
                         run.k + 1)
    /\ UNCHANGED <<chatVars, mcpVars, call>>

PairOutcomes == {"relationship", "null", "error"}

\* (mutant) an error of the pair analysis is rethrown
MutPairSettlesAborts(outcome) ==
    /\ run.phase = "pairs"
    /\ outcome = "error" => run.pairFaults < MaxPairFaults
    /\ run' = IF outcome = "error" THEN [phase |-> "failed"]
              ELSE Scan([run EXCEPT !.attempted = @ \cup {<<run.i, run.j>>},
                                    !.found = IF outcome = "relationship" THEN @ + 1 ELSE @],
                        run.i, run.j + 1, run.combinationCount + 1)
    /\ UNCHANGED <<chatVars, mcpVars, call>>

\* findRelationshipBetweenCollections settles for the pair (i, j): with a
\* relationship record, with null, or with an error the inner catch logs
PairSettles(outcome) ==
    /\ run.phase = "pairs"
    /\ outcome = "error" => run.pairFaults < MaxPairFaults
    /\ run' = Scan([run EXCEPT !.attempted = @ \cup {<<run.i, run.j>>},
                               !.found = IF outcome = "relationship" THEN @ + 1 ELSE @,
                               !.pairFaults = IF outcome = "error" THEN @ + 1 ELSE @],
                   run.i, run.j + 1, run.combinationCount + 1)
    /\ UNCHANGED <<chatVars, mcpVars, call>>

InitDiscovery == ChatInit({"openrouter"}, Faulty) /\ McpQuiet /\ FnQuiet

NextDiscovery ==
    \/ \E n \in 0..MaxCollections, cap \in CollectionCaps, listed \in BOOLEAN :
          StartDiscovery(n, cap, listed)
    \/ \E o \in SchemaOutcomes : SchemaSettles(o)
    \/ \E o \in PairOutcomes : PairSettles(o)

SpecDiscovery == InitDiscovery /\ [][NextDiscovery]_vars

(* ======================================================================= *)
(* Functions of the document-store service                                 *)
(* ======================================================================= *)
\* Values of document fields: null (also: the field is missing), a string, a
\* number.  A document is a function from field names to values; a field
\* name and a collection name is the sequence of its characters.
Null == [t |-> "null"]
StrV(x) == [t |-> "str", s |-> x]
NumV(x) == [t |-> "num", n |-> x]

\* val.toString()
ValueText(v) == IF v.t = "num" THEN ToString(v.n) ELSE v.s

\* doc[field]
FieldOf(doc, field) == IF field \in DOMAIN doc THEN doc[field] ELSE Null

\* this.find(collection, {}, {limit: sampleSize}) on the documents of a
\* collection
FindSample(docs, sampleSize) == SubSeq(docs, 1, Min(Len(docs), sampleSize))

\* .map(doc => doc[field]).filter(val => val != null).map(val => val.toString())
RECURSIVE FieldTexts(_, _)
FieldTexts(docs, field) ==
    IF docs = <<>> THEN <<>>
    ELSE LET v == FieldOf(Head(docs), field)
         IN (IF v = Null THEN <<>> ELSE <<ValueText(v)>>) \o FieldTexts(Tail(docs), field)

\* fromValues.filter(val => toValues.has(val)).length
CountMatches(fromValues, toValues) ==
    Cardinality({i \in 1..Len(fromValues) : \E k \in 1..Len(toValues) : toValues[k] = fromValues[i]})

\* Math.round(strength * 100) for strength = matches / total: strengths are
\* kept in hundredths
RoundHundredths(matches, total) == (200 * matches + total) \div (2 * total)

\* strength > 0.1 for strength = matches / total
IsValidStrength(matches, total) == 10 * matches > total

\* verifyRelationship on the documents of the two collections; strength is
\* the reported value, in hundredths
verifyRelationship(fromAll, fromField, toAll, toField, sampleSize) ==
    LET fromDocs == FindSample(fromAll, sampleSize)
        toDocs == FindSample(toAll, sampleSize)
        fromValues == FieldTexts(fromDocs, fromField)
        toValues == FieldTexts(toDocs, toField)
        matches == CountMatches(fromValues, toValues)
    IN IF Len(fromDocs) = 0 \/ Len(toDocs) = 0
       THEN [isValid |-> FALSE, strength |-> 0, matches |-> 0]
       ELSE IF Len(fromValues) = 0
       THEN [isValid |-> FALSE, strength |-> 0, matches |-> 0, totalChecked |-> 0]
       ELSE [isValid |-> IsValidStrength(matches, Len(fromValues)),
             strength |-> RoundHundredths(matches, Len(fromValues)),
             matches |-> matches, totalChecked |-> Len(fromValues)]

idField == <<"_", "i", "d">>
IdSuffix == <<"I", "d">>

\* collection.slice(0, -1)
DropLast(name) == SubSeq(name, 1, Len(name) - 1)

\* (mutant) only the patterns built on the full name of the other collection
MutMayReferFullName(field, other) ==
    \/ includes(toLowerCase(field), toLowerCase(other \o IdSuffix))
    \/ includes(toLowerCase(field), toLowerCase(other \o idField))

\* possibleRefs.some(...): whether a field of one collection may refer to the
\* other collection
MayRefer(field, other) ==
    \/ includes(toLowerCase(field), toLowerCase(DropLast(other) \o IdSuffix))
    \/ includes(toLowerCase(field), toLowerCase(DropLast(other) \o idField))
    \/ includes(toLowerCase(field), toLowerCase(other \o IdSuffix))
    \/ includes(toLowerCase(field), toLowerCase(other \o idField))
    \/ includes(field, DropLast(other))
    \/ includes(field, idField) \/ includes(field, IdSuffix)

\* one of the two for loops of findRelationshipBetweenCollections: the
\* relationships from the fields of `from` (from index k on) to to._id
RECURSIVE ForeignKeys(_, _, _, _, _, _, _)
ForeignKeys(from, fields, k, fromAll, to, toAll, sampleSize) ==
    IF k > Len(fields) THEN <<>>
    ELSE LET verified == verifyRelationship(fromAll, fields[k], toAll, idField, sampleSize)
         IN (IF MayRefer(fields[k], to) /\ verified.isValid
             THEN << [type |-> "foreign_key", from |-> from, fromField |-> fields[k],
                      to |-> to, toField |-> idField, strength |-> verified.strength,
                      sampleMatches |-> verified.matches] >>
             ELSE <<>>)
            \o ForeignKeys(from, fields, k + 1, fromAll, to, toAll, sampleSize)

\* (mutant) only the fields of collection1 are looked at
MutFindRelationshipOneWay(collection1, collection2, schema1, schema2, docs1, docs2, sampleSize) ==
    ForeignKeys(collection1, schema1, 1, docs1, collection2, docs2, sampleSize)

\* findRelationshipBetweenCollections; schema1 and schema2 are Object.keys of
\* the two schemas, docs1 and docs2 the documents of the two collections;
\* <<>> stands for null
findRelationshipBetweenCollections(collection1, collection2, schema1, schema2, docs1, docs2, sampleSize) ==
    ForeignKeys(collection1, schema1, 1, docs1, collection2, docs2, sampleSize)
       \o ForeignKeys(collection2, schema2, 1, docs2, collection1, docs1, sampleSize)

(* ------------------------------ the inputs ----------------------------- *)
SampleSizes == 1..MaxSample

refField == <<"r", "e", "f">>
SampleValues == {Null, StrV("a1"), StrV("1"), NumV(1)}

\* the documents of a collection then hold one field each
DocsOver(field, n) ==
    UNION {[1..m -> {(field :> v) : v \in SampleValues}] : m \in 0..n}

\* n documents of which the first m hold the value of the only referenced _id
MatchingThenNot(m, n) ==
    [i \in 1..n |-> (refField :> (IF i <= m THEN StrV("a1") ELSE StrV("1")))]

equipments == <<"e", "q", "u", "i", "p", "m", "e", "n", "t", "s">>
defects == <<"d", "e", "f", "e", "c", "t", "s">>
plate == <<"p", "l", "a", "t", "e">>
equipment_id == <<"e", "q", "u", "i", "p", "m", "e", "n", "t", "_", "i", "d">>

EquipmentDocs == {(idField :> StrV(i)) @@ (plate :> StrV("X1")) : i \in {"a1", "a2"}}
DefectDocs == {(idField :> StrV(i)) @@ (equipment_id :> v) :
                  i \in {"d1", "a2"}, v \in {StrV("a1"), StrV("a2"), Null}}

\* the samples of the two collections, given in either order
PairInputs ==
    LET named == {[name |-> equipments, schema |-> <<idField, plate>>, docs |-> d] :
                     d \in UNION {[1..m -> EquipmentDocs] : m \in 1..2}}
                 \cup {[name |-> defects, schema |-> <<idField, equipment_id>>, docs |-> d] :
                          d \in UNION {[1..m -> DefectDocs] : m \in 1..2}}
    IN {<<a, b>> \in named \X named : a.name # b.name}

(* ------------------------------ the steps ------------------------------ *)
\* a call still to be made
Pending(f, a) == [fn |-> f, arg |-> a]
Returned(c, o) == [fn |-> c.fn, arg |-> c.arg, out |-> o]
IsPending(f) == call.fn = f /\ DOMAIN call = {"fn", "arg"}
HasReturned(f) == call.fn = f /\ "out" \in DOMAIN call

VerifyRelationship ==
    /\ IsPending("verifyRelationship")
    /\ call' = Returned(call, verifyRelationship(call.arg.from, refField, call.arg.to,
                                                 idField, call.arg.sampleSize))
    /\ UNCHANGED <<chatVars, mcpVars, run>>

FindRelationshipBetweenCollections ==
    /\ IsPending("findRelationshipBetweenCollections")
    /\ call' = Returned(call,
                   findRelationshipBetweenCollections(
                       call.arg[1].name, call.arg[2].name, call.arg[1].schema,
                       call.arg[2].schema, call.arg[1].docs, call.arg[2].docs, MaxSample))
    /\ UNCHANGED <<chatVars, mcpVars, run>>

(* --------------------------- processObjectIds -------------------------- *)
\* Query values: a string (the sequence of its characters), an object (the
\* sequence of its keys with their values, in the order of Object.keys), an
\* array, a number, and the native identifier (ObjectId): 12 bytes, kept as
\* the 24 half-bytes the hexadecimal text stands for.
TextV(x) == [t |-> "text", chars |-> x]
ObjV(x) == [t |-> "obj", fields |-> x]
ArrV(x) == [t |-> "arr", items |-> x]
OidV(x) == [t |-> "oid", halfBytes |-> x]
\* the plain object processValue builds from Object.keys of an identifier:
\* its own enumerable properties (none, or its byte buffer, by the version
\* of the driver), no longer an instance of ObjectId
CopyV(x) == [t |-> "copy", halfBytes |-> x]
Field(k, v) == [key |-> k, val |-> v]

ObjectIdLength == 24
HexDigits == <<"0", "1", "2", "3", "4", "5", "6", "7", "8", "9", "a", "b", "c", "d", "e", "f">>
UpperHexDigits == <<"0", "1", "2", "3", "4", "5", "6", "7", "8", "9", "A", "B", "C", "D", "E", "F">>

IsHexChar(c) == \E i \in 1..16 : HexDigits[i] = c \/ UpperHexDigits[i] = c

\* the value of a hexadecimal digit
HalfByte(c) == (CHOOSE i \in 1..16 : HexDigits[i] = c \/ UpperHexDigits[i] = c) - 1

\* isValidObjectId: a string of length 24 matching /^[0-9a-fA-F]{24}$/
isValidObjectId(v) ==
    /\ v.t = "text"
    /\ Len(v.chars) = ObjectIdLength
    /\ \A i \in 1..Len(v.chars) : IsHexChar(v.chars[i])

\* new ObjectId(hexString): the bytes the text stands for
ObjectId(x) == OidV([i \in 1..Len(x) |-> HalfByte(x[i])])

\* ObjectId.prototype.toString / toHexString: lower-case hexadecimal
toHexString(oid) == [i \in 1..Len(oid.halfBytes) |-> HexDigits[oid.halfBytes[i] + 1]]

convertToObjectId(v) == IF isValidObjectId(v) THEN ObjectId(v.chars) ELSE v

\* (mutant) processValue converts nothing below the value it is given
MutProcessValueShallow(v) ==
    IF v.t = "text" THEN convertToObjectId(v) ELSE v

\* processValue: strings are converted; arrays and objects are rebuilt with
\* every member processed, whatever the names of their keys.  An identifier
\* is not a string and not an array: it takes the object branch, which
\* rebuilds it as a plain object (convertToObjectId and its instanceof test
\* are reached for strings only).
RECURSIVE processValue(_)
processValue(v) ==
    CASE v.t = "text" -> convertToObjectId(v)
      [] v.t = "arr" -> ArrV([i \in 1..Len(v.items) |-> processValue(v.items[i])])
      [] v.t = "obj" -> ObjV([i \in 1..Len(v.fields) |->
                                Field(v.fields[i].key, processValue(v.fields[i].val))])
      [] v.t \in {"oid", "copy"} -> CopyV(v.halfBytes)
      [] OTHER -> v

endsWith(q, w) == Len(q) >= Len(w) /\ SubSeq(q, Len(q) - Len(w) + 1, Len(q)) = w

\* key === '_id' || key.endsWith('_id') || key.endsWith('Id')
IsIdKey(key) == key = idField \/ endsWith(key, idField) \/ endsWith(key, IdSuffix)

\* processObjectIds: the top-level keys of the query
processObjectIds(query) ==
    ObjV([i \in 1..Len(query.fields) |->
            LET key == query.fields[i].key
                value == query.fields[i].val
            IN Field(key, IF IsIdKey(key) \/ value.t \in {"obj", "arr", "oid", "copy"}
                          THEN processValue(value) ELSE value)])

\* ---- inputs
Repeat(c, n) == [i \in 1..n |-> c]

QueryStrings ==
    { Repeat("a", ObjectIdLength),
      Repeat("5", ObjectIdLength - 2) \o <<"A", "f">>,
      Repeat("a", ObjectIdLength - 1),
      Repeat("a", ObjectIdLength + 1),
      Repeat("a", ObjectIdLength - 1) \o <<"g">> }

QueryKeys ==
    { idField, <<"u", "_", "i", "d">>, <<"u", "I", "d">>, <<"p", "a", "i", "d">>,
      <<"n">>, <<"$", "o", "r">> }

\* {k: s}, {k: {k2: s}}, {k: [s]}, {k: [{k2: s}]}, s a string or an identifier
QueryInputs ==
    LET leaves == {TextV(x) : x \in QueryStrings} \cup {ObjectId(Repeat("b", ObjectIdLength))}
        inner == {ObjV(<<Field(k, s)>>) : k \in QueryKeys, s \in leaves}
    IN {ObjV(<<Field(k, s)>>) : k \in QueryKeys, s \in leaves}
       \cup {ObjV(<<Field(k, o)>>) : k \in QueryKeys, o \in inner}
       \cup {ObjV(<<Field(k, ArrV(<<s>>))>>) : k \in QueryKeys, s \in leaves}
       \cup {ObjV(<<Field(k, ArrV(<<o>>))>>) : k \in QueryKeys, o \in inner}

ProcessObjectIds ==
    /\ IsPending("processObjectIds")
    /\ call' = Returned(call, processObjectIds(call.arg))
    /\ UNCHANGED <<chatVars, mcpVars, run>>

(* ------------------------- the countDocuments tool --------------------- *)
\* the query argument of a tool call: absent, an object, or something else
AbsentQuery == [t |-> "absent"]
CountQueries == {AbsentQuery, ObjV(<<>>), ObjV(<<Field(<<"n">>, TextV(<<"x">>))>>),
                 TextV(<<"x">>)}

\* z.record(z.any()).default({}): the default for a missing argument, the
\* object itself, or a validation error for anything else
ParseQuery(q) ==
    IF q = AbsentQuery THEN [ok |-> TRUE, query |-> ObjV(<<>>)]
    ELSE IF q.t = "obj" THEN [ok |-> TRUE, query |-> q]
    ELSE [ok |-> FALSE]

\* the countDocuments tool: the schema check, then
\* mongoService.countDocuments(collection, query), which hands
\* processObjectIds(query) to collection.countDocuments
CountDocumentsTool ==
    /\ IsPending("countDocuments")
    /\ call' = Returned(call,
                  LET parsed == ParseQuery(call.arg)
                  IN IF parsed.ok
                     THEN [executed |-> TRUE, filter |-> processObjectIds(parsed.query)]
                     ELSE [executed |-> FALSE])
    /\ UNCHANGED <<chatVars, mcpVars, run>>

(* ------------------------ token trim, authorize ------------------------ *)
\* histories: the priming pair and up to MaxTrimMessages messages
TrimTokens == {1, NoResponseTokens, MAX_TOKENS - PromptTokens - AckTokens - 1,
               MAX_TOKENS - NoResponseTokens, MAX_TOKENS + ContextSuffixTokens}
TrimInputs ==
    {initialChatHistory \o h :
        h \in UNION {[1..m -> {Msg("user", "input", NoId, n) : n \in TrimTokens}] :
                        m \in 1..MaxTrimMessages}}

\* part_003 388-402: the token policy on the turn's chatHistory
TokenPolicy ==
    /\ IsPending("tokenTrim")
    /\ call' = Returned(call, IF GeminiTokenFires(call.arg)
                              THEN GeminiTokenTrim(call.arg) ELSE call.arg)
    /\ UNCHANGED <<chatVars, mcpVars, run>>

AuthorizeInputs ==
    {[accessToken |-> a, workspaceID |-> w, storeUp |-> up] :
        a \in AccessTokens, w \in WorkspaceHeaders, up \in BOOLEAN}

AuthorizeCall ==
    /\ IsPending("authorize")
    /\ call' = Returned(call, authorize(call.arg.accessToken, call.arg.workspaceID,
                                        call.arg.storeUp))
    /\ UNCHANGED <<chatVars, mcpVars, run>>

(* ---------------------- generateRelationshipSummary -------------------- *)
\* collectionConnections, a plain object: its own keys in the order they were
\* inserted, and for each key its Set of neighbours in the order they were
\* added. A name of Object.prototype is found on it without being a key.
Collections == {"a", "b", "c", "d"} \cup PrototypeNames
NoConnections == [keys |-> <<>>, sets |-> [c \in Collections |-> <<>>]]

Range(q) == {q[i] : i \in 1..Len(q)}
AddOnce(q, x) == IF x \in Range(q) THEN q ELSE Append(q, x)

\* rel.relationships of every rel, in the order the two forEach visit them
RECURSIVE Flatten(_)
Flatten(relationships) ==
    IF relationships = <<>> THEN <<>>
    ELSE Head(relationships).relationships \o Flatten(Tail(relationships))

\* collectionConnections[name] is an inherited member, which is truthy and
\* has no add: the forEach body throws a TypeError
ConnectThrows(r) == r.from \in PrototypeNames \/ r.to \in PrototypeNames

\* the connection tracking of the inner forEach for the relationship r
Connect(cc, r) ==
    [keys |-> AddOnce(AddOnce(cc.keys, r.from), r.to),
     sets |-> [c \in Collections |->
                 IF c = r.from THEN AddOnce(cc.sets[c], r.to)
                 ELSE IF c = r.to THEN AddOnce(cc.sets[c], r.from)
                 ELSE cc.sets[c]]]

RECURSIVE ConnectAll(_, _, _)
ConnectAll(cc, rs, k) ==
    IF k > Len(rs) THEN cc ELSE ConnectAll(Connect(cc, rs[k]), rs, k + 1)

\* connections[current].forEach(connected => { if (!visited.has(connected))
\* queue.push(connected) })
RECURSIVE PushUnvisited(_, _, _, _)
PushUnvisited(queue, neighbours, k, visited) ==
    IF k > Len(neighbours) THEN queue
    ELSE PushUnvisited(IF neighbours[k] \in visited THEN queue
                       ELSE Append(queue, neighbours[k]),
                       neighbours, k + 1, visited)

\* findConnectedGroup: the while loop on the queue; yields the group and the
\* visited set it leaves
RECURSIVE findConnectedGroup(_, _, _, _)
findConnectedGroup(queue, connections, visited, group) ==
    IF queue = <<>> THEN [group |-> group, visited |-> visited]
    ELSE LET current == Head(queue)
         IN IF current \in visited
            THEN findConnectedGroup(Tail(queue), connections, visited, group)
            ELSE findConnectedGroup(
                     PushUnvisited(Tail(queue), connections.sets[current], 1,
                                   visited \cup {current}),
                     connections, visited \cup {current}, Append(group, current))

\* Object.keys(collectionConnections).forEach(...): the groups from key k on
RECURSIVE CollectionGroups(_, _, _)
CollectionGroups(connections, k, visited) ==
    IF k > Len(connections.keys) THEN <<>>
    ELSE IF connections.keys[k] \in visited THEN CollectionGroups(connections, k + 1, visited)
    ELSE LET found == findConnectedGroup(<<connections.keys[k]>>, connections, visited, <<>>)
         IN (IF Len(found.group) > 1 THEN <<found.group>> ELSE <<>>)
            \o CollectionGroups(connections, k + 1, found.visited)

strongThreshold == 50

\* generateRelationshipSummary on the results of the pair analyses (strengths
\* in hundredths): the summary, or the exception the loop throws
generateRelationshipSummary(relationships) ==
    LET rs == Flatten(relationships)
    IN IF \E k \in 1..Len(rs) : ConnectThrows(rs[k])
       THEN [threw |-> "TypeError"]
       ELSE [totalRelationships |-> Len(relationships),
             strongRelationships |-> Cardinality({k \in 1..Len(rs) : rs[k].strength >= strongThreshold}),
             weakRelationships |-> Cardinality({k \in 1..Len(rs) : rs[k].strength < strongThreshold}),
             collectionGroups |-> CollectionGroups(ConnectAll(NoConnections, rs, 1), 1, {})]

\* the result of one pair analysis: a strong relationship one way, or a weak
\* one with a strong one back
Relationship(a, b, s) == [from |-> a, to |-> b, strength |-> s]
PairResults ==
    {[relationships |-> <<Relationship(p[1], p[2], 100)>>] :
        p \in {q \in Collections \X Collections : q[1] # q[2]}}
    \cup {[relationships |-> <<Relationship(p[1], p[2], 11), Relationship(p[2], p[1], 100)>>] :
             p \in {q \in Collections \X Collections : q[1] # q[2]}}
SummaryInputs == UNION {[1..m -> PairResults] : m \in 0..MaxRelationships}

GenerateRelationshipSummary ==
    /\ IsPending("generateRelationshipSummary")
    /\ call' = Returned(call, generateRelationshipSummary(call.arg))
    /\ UNCHANGED <<chatVars, mcpVars, run>>

(* ------------------------- the specification --------------------------- *)
\* one function of the service, about to be applied to one argument
InitFunctions ==
    /\ ChatInit({"openrouter"}, Faulty)
    /\ McpQuiet
    /\ run = NoRun
    /\ \/ \E f \in DocsOver(refField, MaxSample), g \in DocsOver(idField, MaxSample),
             n \in SampleSizes :
             call = Pending("verifyRelationship", [from |-> f, to |-> g, sampleSize |-> n])
       \/ \E n \in 1..MaxLargeSample, m \in 0..MaxLargeSample :
             /\ m <= n
             /\ call = Pending("verifyRelationship",
                               [from |-> MatchingThenNot(m, n),
                                to |-> <<(idField :> StrV("a1"))>>, sampleSize |-> n])
       \/ \E p \in PairInputs : call = Pending("findRelationshipBetweenCollections", p)
       \/ \E q \in QueryInputs : call = Pending("processObjectIds", q)
       \/ \E q \in CountQueries : call = Pending("countDocuments", q)
       \/ \E h \in TrimInputs : call = Pending("tokenTrim", h)
       \/ \E a \in AuthorizeInputs : call = Pending("authorize", a)
       \/ \E r \in SummaryInputs : call = Pending("generateRelationshipSummary", r)

NextFunctions ==
    \/ VerifyRelationship
    \/ FindRelationshipBetweenCollections
    \/ ProcessObjectIds
    \/ CountDocumentsTool
    \/ TokenPolicy
    \/ AuthorizeCall
    \/ GenerateRelationshipSummary

SpecFunctions == InitFunctions /\ [][NextFunctions]_vars

(* ======================================================================= *)
(* Claims                                                                  *)
(* ======================================================================= *)

\* C1: in every history the loop produces (the arrays the session map holds
\* and the arrays the running turns hold, before and after trimming, with turns
\* of one session interleaved at their awaits) a tool-invocation message is
\* immediately followed by a tool-result message, and so is never the last one.
C1_Pairing ==
    \A a \in ArrIds : \A i \in 1..Len(arrays[a]) :
        arrays[a][i].kind = "call"
           => i < Len(arrays[a]) /\ arrays[a][i + 1].kind = "result"

\* a turn still running on the array it started with, after an interleaved turn
\* of the same session trimmed the history, tool round-trips retained
C1_Witness ==
    \E t \in TurnIds :
        /\ InFlight(t)
        /\ chatSessions[turns[t].sid] \notin {NoArray, turns[t].ref}
        /\ \E i \in 1..Len(History(turns[t].sid)) : History(turns[t].sid)[i].kind = "call"


\* the tool-invocation and tool-result messages of h are paired: a result
\* follows its invocation, an invocation precedes its result
Paired(h) ==
    \A i \in 1..Len(h) :
        /\ h[i].kind = "call" => i < Len(h) /\ h[i + 1].kind = "result"
        /\ h[i].kind = "result" => i > 1 /\ h[i - 1].kind = "call"

\* C2 (as claimed): count-based trimming never splits a tool-invocation /
\* tool-result pair: the history a session retains holds no tool-result
\* without its invocation and no invocation without its result.
C2_NoSplitPair == \A s \in Sessions : Paired(History(s))

Last(h) == h[Len(h)]

\* the step that handles the response of the oracle or of the tool in the
\* last iteration of turn t
LastIterationEnds(t) ==
    /\ InFlight(t)
    /\ turns[t].iterationCount = maxIterations
    /\ turns'[t].st = "done"

C4_TextIsTheResponse ==
    [][\A t \in TurnIds : \A x \in OracleTexts :
          OracleText(t, x)
             => /\ turns'[t].event = "chat_response"
                /\ turns'[t].payload = x]_vars

\* C5 (as claimed): the tool-result message carries the id of the tool call
\* of the tool-invocation message before it, also when the oracle's tool call
\* has no id.
C5_SameCorrelationId ==
    \A a \in ArrIds : \A i \in 1..Len(arrays[a]) :
        (arrays[a][i].kind = "call" /\ i < Len(arrays[a]))
           => arrays[a][i + 1].id = arrays[a][i].id

\* the step in which turn t ends and its memory management stores a new
\* history for the session
TrimStep(t) ==
    /\ InFlight(t)
    /\ turns'[t].st = "done"
    /\ chatSessions'[turns[t].sid] # chatSessions[turns[t].sid]

\* C6: every trim (count-based or token-based, any variant) stores a history
\* whose first 2 messages are the first 2 messages of the history it trimmed,
\* the priming pair, unmodified.
C6_PrimingSurvives ==
    [][\A t \in TurnIds :
          TrimStep(t)
             => LET before == arrays[turns[t].ref]
                    after == arrays'[chatSessions'[turns[t].sid]]
                IN /\ Len(after) >= 2
                   /\ SubSeq(after, 1, 2) = SubSeq(before, 1, 2)
                   /\ SubSeq(after, 1, 2) = initialChatHistory]_vars

\* a session holds a trimmed history: its third message is no longer the
\* first user message
C6_Witness ==
    \E s \in Sessions :
        /\ Len(History(s)) > 2
        /\ History(s)[3].kind # "user"
        /\ SubSeq(History(s), 1, 2) = initialChatHistory

\* C7 (as claimed): the end-of-turn trim is idempotent on every history a
\* turn can end with.
C7_TrimIdempotent ==
    \A a \in ArrIds :
        Len(arrays[a]) >= 2
           => EndOfTurnTrim(variant, EndOfTurnTrim(variant, arrays[a]))
                 = EndOfTurnTrim(variant, arrays[a])

\* C8 (as claimed): when an oracle invocation fails, in any iteration from 1
\* to 15, nothing is appended, nothing more is invoked, and the turn ends with
\* the error message produced for that failure.
C8_OracleErrorIsTheResponse ==
    [][\A t \in TurnIds : \A c \in Causes :
          OracleFails(t, c)
             => /\ turns'[t].st = "done"
                /\ turns'[t].event = "chat_response"
                /\ turns'[t].payload = ErrorText(variant, c)]_vars

\* a tool requested by the oracle fails: the tool answers with an error text,
\* the tool call itself throws or times out, or the arguments do not parse
ToolFails(t) ==
    \/ \E r1, r2 \in RandomIds \cup {NoId} : ToolReturns(t, "toolError", r1, r2)
    \/ ToolThrows(t)
    \/ OracleRequestsToolBadArgs(t)

\* C9 (as claimed): a failing tool does not end the turn: while iterations
\* are left, the pair with the error text as result is appended and the
\* oracle is invoked again.
C9_ToolFailureIsContext ==
    [][\A t \in TurnIds :
          (ToolFails(t) /\ turns[t].iterationCount < maxIterations
                        /\ chatSessions[turns[t].sid] # NoArray)
             => /\ turns'[t].st = "oracle"
                /\ turns'[t].oracleCalls = turns[t].oracleCalls + 1
                /\ Len(arrays'[turns[t].ref]) = Len(arrays[turns[t].ref]) + 2
                /\ Last(arrays'[turns[t].ref]).kind = "result"]_vars

\* a step performed for session s: its connection, its disconnect, its chat
\* messages, any step of one of its turns
StepFor(s) ==
    \/ \E a \in AccessTokens, w \in WorkspaceHeaders, up \in BOOLEAN : Authorize(s, a, w, up)
    \/ OnConnection(s)
    \/ Disconnect(s)
    \/ \E t \in TurnIds : ChatMessageEmpty(t, s)
    \/ \E t \in TurnIds : \E w \in UserWords(variant) : ChatMessage(t, s, w)
    \/ \E t \in TurnIds : InFlight(t) /\ turns[t].sid = s /\ TurnResponds(t)

\* C10: a step performed for one session changes neither the history nor the
\* workspace binding of any other session.
C10_Isolation ==
    [][\A a \in Sessions : \A b \in Sessions \ {a} :
          StepFor(a)
             => /\ History(b)' = History(b)
                /\ workspaceMap'[b] = workspaceMap[b]]_vars

\* two sessions side by side, each with a history its own turn has grown
C10_Witness ==
    \E a \in Sessions : \E b \in Sessions \ {a} :
        /\ Len(History(a)) > 2
        /\ Len(History(b)) > 2
        /\ \E t \in TurnIds : turns[t].st = "done" /\ turns[t].sid = a

\* C11 (as claimed): once the disconnect of a session has been handled, the
\* session map holds no history for it in any later state, whatever a turn of
\* that session still in flight does afterwards.
C11_NoHistoryAfterDisconnect ==
    \A s \in Sessions : conn[s] = "closed" => chatSessions[s] = NoArray

\* C12: on the server with the access key check, a GET /sse whose
\* authorization parameter is absent or is not the configured access key is
\* answered 401, and the connection is never Open, never has a transport and
\* never has a stored credential; also when no access key is configured.
C12_BadKeyIsRejected ==
    /\ [][\A c \in Conns, k \in ProvidedKeys, ok \in BOOLEAN :
            (server = "index" /\ GetSse(c, k, ok) /\ (k = NoKey \/ k # accessKey))
               => /\ reply'.status = 401
                  /\ sse'[c] = "rejected"
                  /\ c \notin transports'
                  /\ sessionKeys'[c] = NoKey]_vars
    /\ [](\A c \in Conns : sse[c] = "rejected" => c \notin transports /\ sessionKeys[c] = NoKey)
    /\ [][\A c \in Conns : sse[c] = "rejected" => sse'[c] = "rejected"]_vars

\* a connection turned away by a server that has no access key configured
C12_Witness ==
    /\ server = "index"
    /\ accessKey = NoKey
    /\ reply.status = 401
    /\ \E c \in Conns : sse[c] = "rejected"

\* C13 (as claimed): a POST /messages is handed to a transport only if the
\* request itself carries the valid access key.
C13_RequestCarriesCredential ==
    [][\A id \in SessionIds, k \in ProvidedKeys, h, f \in BOOLEAN :
          (server = "index" /\ PostMessages(id, k, h, f) /\ reply'.forwarded # NoConn)
             => k = accessKey /\ ~Falsy(k)]_vars

\* C14 (as claimed): a POST /messages whose sessionId names no registered
\* transport is answered with the 'No transport found for sessionId' error
\* and no transport handles it.
C14_NoTransportError ==
    [][\A id \in SessionIds, k \in ProvidedKeys, h, f \in BOOLEAN :
          (PostMessages(id, k, h, f) /\ id \notin transports)
             => /\ reply'.status = 400
                /\ reply'.body = "No transport found for sessionId"
                /\ reply'.forwarded = NoConn]_vars

\* C15: a call of the relational executor, in any operation, with a query
\* whose trimmed, lower-cased text starts neither with 'select' nor with
\* 'with' ends in an error, and nothing is handed to the connection's query
\* function.
C15_NonSelectNeverReachesConnection ==
    (/\ toolResult.tool \in {"handler", "service"}
     /\ ~startsWith(toLowerCase(trim(toolResult.query)), select)
     /\ ~startsWith(toLowerCase(trim(toolResult.query)), with))
       => /\ toolResult.kind = "error"
          /\ toolResult.sent = <<>>
          /\ toolResult.served = "none"

\* an exists call with a query in parentheses was turned away
C15_Witness ==
    /\ toolResult.tool = "handler"
    /\ toolResult.operation = "exists"
    /\ startsWith(toolResult.query, <<"(">> \o select)
    /\ toolResult.kind = "error"

\* C16 (as claimed): the pool that serves the sessions' queries is, in every
\* state, the pool established at start-up.
C16_PoolIsTheStartupPool ==
    /\ pool = "startup"
    /\ toolResult.served \in {"none", "startup"}

\* C17: a socket whose authorization failed never has a chat history, never
\* has a workspace binding, and no chat_message handler ever runs for it.
C17_NoStateForRejectedSocket ==
    \A s \in Sessions :
        conn[s] = "rejected"
           => /\ chatSessions[s] = NoArray
              /\ workspaceMap[s] = NoWorkspace
              /\ \A t \in TurnIds : turns[t].st # "idle" => turns[t].sid # s

\* a socket turned away next to one that is served
C17_Witness ==
    \E a \in Sessions : \E b \in Sessions \ {a} :
        /\ conn[a] = "rejected"
        /\ \E t \in TurnIds : turns[t].st # "idle" /\ turns[t].sid = b

\* C18 (as claimed): when a tool invocation of a turn resolves, the tool_call
\* event of that round-trip has already been emitted.
C18_EventBeforeResolve ==
    [][\A t \in TurnIds :
          (variant # "cli" /\ turns[t].st = "tool" /\ turns'[t].st # "tool")
             => turns[t].toolEvents = turns[t].toolCalls]_vars

Kinds(h) == [i \in 1..Len(h) |-> h[i].kind]

\* C19 (as claimed): a turn on a freshly primed session in which the oracle
\* requests a tool three times and then answers with text leaves the session
\* with the priming pair, 1 user message, 3 (tool-call, tool-result) pairs and
\* 1 assistant text message, in that order.
C19_ThreeToolTurnHistory ==
    [][\A t \in TurnIds :
          (/\ OracleText(t, "answer")
           /\ turns[t].toolCalls = 3
           /\ chatSessions[turns[t].sid] = turns[t].ref
           /\ Len(arrays[turns[t].ref]) = 9)
             => Kinds(History(turns[t].sid))'
                   = <<"user", "text", "user", "call", "result", "call", "result",
                       "call", "result", "text">>]_vars

\* the oracle answers with neither a function call nor text: a message
\* without content or a parts array without such a part, or (Gemini) a
\* candidate whose content has no parts array at all
OracleAnswersEmpty(t) == OracleText(t, "noResponse") \/ OracleFails(t, "noParts")

\* C20 (as claimed): an oracle response with neither a function call nor text
\* ends the turn as a text outcome: the fixed fallback text is appended as the
\* assistant's message and the turn answers with chat_response.
C20_EmptyResponseIsFallbackText ==
    [][\A t \in TurnIds :
          (OracleAnswersEmpty(t) /\ chatSessions[turns[t].sid] = turns[t].ref)
             => /\ turns'[t].st = "done"
                /\ turns'[t].event = "chat_response"
                /\ Last(History(turns[t].sid))'.kind = "text"
                /\ Last(History(turns[t].sid))'.txt = "noResponse"]_vars

\* the place of the pair (a, b) of collections, a < b, in the order of the two
\* for loops over n collections (1 for the first pair)
Rank(n, a, b) == a * n - (a * (a + 1)) \div 2 + (b - a)

C26_LimitedNote ==
    (/\ run.phase = "done"
     /\ \/ Analysed(run) < run.all
        \/ \E a, b \in 0..(run.all - 1) :
              a < b /\ Rank(run.all, a, b) > maxCombinations)
       => run.note = "limited"

\* C21: for all samples and every sample size, verifyRelationship reports a
\* strength in [0,1] that equals (matched sampled values)/(sampled values
\* checked), accepts a relationship only when the reported strength is > 0.1,
\* and reports the pair invalid when either sample is empty
C21_StrengthIsTheRatio ==
    HasReturned("verifyRelationship") =>
        LET fromDocs == FindSample(call.arg.from, call.arg.sampleSize)
            toDocs == FindSample(call.arg.to, call.arg.sampleSize)
            checked == FieldTexts(fromDocs, refField)
            matched == CountMatches(checked, FieldTexts(toDocs, idField))
        IN /\ call.out.strength \in 0..100
           /\ (Len(toDocs) > 0 /\ Len(checked) > 0)
                 => call.out.strength * Len(checked) = 100 * matched
           /\ call.out.isValid => call.out.strength > 10
           /\ (Len(fromDocs) = 0 \/ Len(toDocs) = 0) => ~call.out.isValid

\* the example of the two collections, in either argument order
IsEquipmentExample(arg) ==
    \E i \in 1..2 :
        /\ arg[i] = [name |-> equipments, schema |-> <<idField, plate>>,
                     docs |-> <<(idField :> StrV("a1")) @@ (plate :> StrV("X1"))>>]
        /\ arg[3 - i] = [name |-> defects, schema |-> <<idField, equipment_id>>,
                         docs |-> <<(idField :> StrV("d1")) @@ (equipment_id :> StrV("a1"))>>]

\* C22: for equipments [{_id:'a1', plate:'X1'}] and defects [{_id:'d1',
\* equipment_id:'a1'}] in either argument order,
\* findRelationshipBetweenCollections reports a foreign-key candidate from
\* defects.equipment_id to equipments._id with strength 1.0
C22_EquipmentForeignKey ==
    (HasReturned("findRelationshipBetweenCollections") /\ IsEquipmentExample(call.arg)) =>
        \E k \in 1..Len(call.out) :
            /\ call.out[k].type = "foreign_key"
            /\ call.out[k].from = defects /\ call.out[k].fromField = equipment_id
            /\ call.out[k].to = equipments /\ call.out[k].toField = idField
            /\ call.out[k].strength = 100

C22_Witness ==
    /\ HasReturned("findRelationshipBetweenCollections")
    /\ IsEquipmentExample(call.arg)
    /\ call.arg[1].name = equipments
    /\ Len(call.out) = 1

\* the strings of a query value, each with the key it is held under and the
\* value it has become in the processed query
RECURSIVE Leaves(_, _, _)
Leaves(key, in, out) ==
    CASE in.t = "text" -> {[key |-> key, in |-> in, out |-> out]}
      [] in.t = "arr" -> UNION {Leaves(key, in.items[i], out.items[i]) : i \in 1..Len(in.items)}
      [] in.t = "obj" -> UNION {Leaves(in.fields[i].key, in.fields[i].val, out.fields[i].val) :
                                   i \in 1..Len(in.fields)}
      [] OTHER -> {}

QueryLeaves == Leaves(<<>>, call.arg, call.out)

\* C23 (as stated): a 24-character hexadecimal string in an identifier-named
\* field becomes the native identifier whose textual form is the same string;
\* any other string in that position is unchanged
C23_SameTextualForm ==
    HasReturned("processObjectIds") =>
        \A l \in QueryLeaves :
            IsIdKey(l.key) =>
                IF isValidObjectId(l.in)
                THEN l.out.t = "oid" /\ toHexString(l.out) = l.in.chars
                ELSE l.out = l.in

\* C23 (amended): a 24-character hexadecimal string in an identifier-named
\* field becomes the native identifier whose textual form spells the same
\* digits in lower case; any other string in that position is unchanged
C23_SameDigitsLowerCase ==
    HasReturned("processObjectIds") =>
        \A l \in QueryLeaves :
            IsIdKey(l.key) =>
                IF isValidObjectId(l.in)
                THEN /\ l.out.t = "oid"
                     /\ Len(toHexString(l.out)) = Len(l.in.chars)
                     /\ \A i \in 1..Len(l.in.chars) :
                           /\ toHexString(l.out)[i] \in Range(HexDigits)
                           /\ HalfByte(toHexString(l.out)[i]) = HalfByte(l.in.chars[i])
                ELSE l.out = l.in

\* an upper-case identifier under a nested identifier-named key was converted
C23_Witness ==
    /\ HasReturned("processObjectIds")
    /\ \E l \in QueryLeaves :
          /\ IsIdKey(l.key) /\ l.out.t = "oid" /\ toHexString(l.out) # l.in.chars
          /\ call.arg.fields[1].val.t = "obj"
    /\ \E q \in QueryInputs :
          \E l \in Leaves(<<>>, q, processObjectIds(q)) :
              IsIdKey(l.key) /\ ~isValidObjectId(l.in) /\ l.out = l.in

\* C24: a countDocuments invocation without a query argument is rejected and
\* executes no count
C24_MissingQueryRejected ==
    (HasReturned("countDocuments") /\ call.arg = AbsentQuery) => ~call.out.executed

\* the length of the longest suffix of the messages after the priming pair
\* whose token count is within the budget
LongestSuffixWithin(h, limit) ==
    LET rest == Slice(h, 2, Len(h))
    IN CHOOSE n \in 0..Len(rest) :
          /\ countTokens(SliceLast(rest, n)) <= limit
          /\ \A m \in (n + 1)..Len(rest) : countTokens(SliceLast(rest, m)) > limit

\* C27: when the token trim applies, what is kept after the two priming
\* messages is the longest suffix of the history whose token count does not
\* exceed the budget, the priming messages' tokens not being counted
C27_PrimingOutsideBudget ==
    (HasReturned("tokenTrim") /\ GeminiTokenFires(call.arg)) =>
        call.out = Slice(call.arg, 0, 2)
                      \o SliceLast(Slice(call.arg, 2, Len(call.arg)),
                                   LongestSuffixWithin(call.arg, MAX_TOKENS))

\* C28: authorize fails with 'Session not found' when the store is reachable
\* and holds no session for the credential, an outcome no other failure
\* cause produces
C28_SessionNotFoundIsDistinct ==
    HasReturned("authorize") =>
        /\ (call.arg.accessToken = "unknown" /\ call.arg.workspaceID # "" /\ call.arg.storeUp)
              => call.out = "Session not found"
        /\ (call.arg.accessToken # "" /\ call.arg.workspaceID # "" /\ ~call.arg.storeUp)
              => call.out = "DB error"

\* the collections a path of relationships joins to one of S
RECURSIVE Reach(_, _)
Reach(S, rs) ==
    LET more == S \cup {rs[k].to : k \in {j \in 1..Len(rs) : rs[j].from \in S}}
                  \cup {rs[k].from : k \in {j \in 1..Len(rs) : rs[j].to \in S}}
    IN IF more = S THEN S ELSE Reach(more, rs)

\* the connected components with more than one member
Components(rs) ==
    {c \in {Reach({x}, rs) : x \in Collections} : Cardinality(c) > 1}

GroupsAreComponents(groups, rs) ==
    /\ \A k \in 1..Len(groups) : Cardinality(Range(groups[k])) = Len(groups[k])
    /\ \A k, l \in 1..Len(groups) : k # l => Range(groups[k]) \cap Range(groups[l]) = {}
    /\ {Range(groups[k]) : k \in 1..Len(groups)} = Components(rs)

\* C29: for every list of accepted relationships the collectionGroups of
\* generateRelationshipSummary are exactly the connected components with more
\* than one member of the graph of the relationships, each collection in at
\* most one group
C29_GroupsAreComponents ==
    HasReturned("generateRelationshipSummary") =>
        /\ "collectionGroups" \in DOMAIN call.out
        /\ GroupsAreComponents(call.out.collectionGroups, Flatten(call.arg))

\* C30: a string held under a field whose name is not _id and does not end in
\* _id or Id is never converted to the native identifier, at any depth
C30_OtherFieldsNeverCoerced ==
    HasReturned("processObjectIds") =>
        \A l \in QueryLeaves : ~IsIdKey(l.key) => l.out = l.in

\* the events that end a turn for the client
TerminalEvents == {"chat_response", "error"}

CountCeiling(v) ==
    CASE v = "openrouter" -> OpenRouterCeiling
      [] v = "gemini"     -> GeminiCeiling
      [] v = "cli"        -> MAX_HISTORY_LENGTH

\* C32: with the turns of a session run one at a time, the history the
\* session map holds once a turn has completed has at most the count ceiling
\* of messages (50 in part_001, 5 in part_003), also when the token policy
\* fires in the same turn
C32_CountCeilingHolds ==
    \A s \in Sessions :
        (/\ variant \in {"openrouter", "gemini"}
         /\ ~budget.overlap.same
         /\ conn[s] = "connected"
         /\ \A t \in TurnIds : ~(InFlight(t) /\ turns[t].sid = s))
            => Len(History(s)) <= CountCeiling(variant)

\* C33: with two turns of a session interleaved at their awaits no append is
\* lost: when a turn has pushed the messages of a tool round trip and goes on
\* to its next oracle invocation, the array it pushed them to is the history
\* the session map holds and the invocation reads
C33_NoLostAppend ==
    [][\A t \in TurnIds :
          (turns[t].st = "tool" /\ turns'[t].st = "oracle" /\ conn[turns[t].sid] = "connected")
             => /\ turns'[t].reqRef = turns'[t].ref
                /\ chatSessions'[turns'[t].sid] = turns'[t].ref]_vars

\* C34: in every reachable state of the transport server with the access key
\* check, whatever the order of connects, closes and requests, the session
\* identifiers with a registered transport are exactly those with a stored
\* credential
C34_TransportsMatchKeys ==
    server = "index" => transports = {id \in SessionIds : sessionKeys[id] # NoKey}

\* one connection registered while another one has been closed
C34_Witness ==
    /\ server = "index"
    /\ \E c \in Conns : c \in transports /\ sessionKeys[c] # NoKey
    /\ \E d \in Conns : sse[d] = "closed"

\* C35: the keys of workspaceMap are socket ids that are connecting or
\* connected: once the disconnect of a socket has been handled the map holds
\* no binding for it
C35_NoBindingAfterDisconnect ==
    \A s \in Sessions :
        workspaceMap[s] # NoWorkspace => conn[s] \in {"authorized", "connected"}

\* the native identifiers of a query value, each with the value it has become
RECURSIVE Identifiers(_, _)
Identifiers(in, out) ==
    CASE in.t = "oid" -> {[in |-> in, out |-> out]}
      [] in.t = "arr" -> UNION {Identifiers(in.items[i], out.items[i]) : i \in 1..Len(in.items)}
      [] in.t = "obj" -> UNION {Identifiers(in.fields[i].val, out.fields[i].val) :
                                   i \in 1..Len(in.fields)}
      [] OTHER -> {}

\* C36: processObjectIds is idempotent, processObjectIds(processObjectIds(q))
\* equals processObjectIds(q) for every query q, and a value that already is
\* a native identifier is returned as the same identifier
C36_Idempotent ==
    HasReturned("processObjectIds") =>
        /\ processObjectIds(call.out) = call.out
        /\ \A l \in Identifiers(call.arg, call.out) : l.out = l.in

\* the (from, fromField, to, toField, strength) of the relationships reported
Reported(rels) ==
    {<<rels[k].from, rels[k].fromField, rels[k].to, rels[k].toField, rels[k].strength>> :
        k \in 1..Len(rels)}

\* C37: pairwise discovery is symmetric: with the schemas and samples fixed,
\* findRelationshipBetweenCollections(A, B, schemaA, schemaB) and
\* findRelationshipBetweenCollections(B, A, schemaB, schemaA) report the same
\* set of (from, fromField, to, toField, strength)
C37_Symmetric ==
    HasReturned("findRelationshipBetweenCollections") =>
        Reported(call.out)
           = Reported(findRelationshipBetweenCollections(
                          call.arg[2].name, call.arg[1].name, call.arg[2].schema,
                          call.arg[1].schema, call.arg[2].docs, call.arg[1].docs, MaxSample))

\* defects given first; relationships found in both directions, of different
\* strengths
C37_Witness ==
    /\ HasReturned("findRelationshipBetweenCollections")
    /\ call.arg[1].name = defects
    /\ \E r1, r2 \in Reported(call.out) :
          r1[1] = defects /\ r2[1] = equipments /\ r1[5] # r2[5]

====
